---- MODULE Spec2Model ----
(***************************************************************************)
(* git-sync (src/main.go, second program of the file, lines 257-512): a    *)
(* webhook server that, on an authenticated POST naming a configured       *)
(* repository, runs git fetch / git reset --hard / git clean -fdx in the    *)
(* repository's local working copy.                                        *)
(*                                                                         *)
(* The model covers processConfig (defaults, validation, inheritance of    *)
(* the global tokens), the HTTP handler's decision chain, and              *)
(* syncRepository's three external commands, one step per command.         *)
(* A handler slot is one connection goroutine of net/http: it serves one   *)
(* request after the other.  The X-Forwarded-For header, which the handler *)
(* only copies into its log records, is not modelled.                      *)
(*                                                                         *)
(* Spec is the server with one connection and every configuration of the   *)
(* bounds.  SpecConc is the server with two connections, on a few          *)
(* configurations, and follows the working copy of the first repository   *)
(* as git changes it.  SpecFirst is the startup of the first program of    *)
(* the file (lines 1-256), which prints its configuration.                 *)
(***************************************************************************)
EXTENDS Integers, Sequences, FiniteSets, TLC

VARIABLES
    phase,      \* "loaded" (loadConfig returned), "serving", "exited"
    loaded,     \* the configuration as loadConfig returned it (history)
    config,     \* *serverConfig, mutated in place by processConfig
    handlers,   \* handler slot -> the state of the request it serves
    stdout,     \* what the process has printed to its standard output
    worktree    \* local path -> the working copy there, for the paths followed

vars == <<phase, loaded, config, handlers, stdout, worktree>>

\* What no handler writes.
server == <<phase, loaded, config, stdout>>

-----------------------------------------------------------------------------
(* Bounds of the model. *)

MaxGlobals == 2     \* longest global_tokens list
MaxRepos == 2       \* longest repositories list

-----------------------------------------------------------------------------
(* Helpers. *)

Range(s) == {s[i] : i \in DOMAIN s}

SeqsUpTo(S, n) == UNION {[1..k -> S] : k \in 0..n}

NoError == "nil"

-----------------------------------------------------------------------------
(* Inputs: configuration files. *)

GlobalToken(i) == "g" \o ToString(i)

LocalPath(i) == "/opt/r" \o ToString(i)

RepoNames == {"a", "b"}

RepoTokenPool == {"t1"}

RepoTokenInputs == {<<>>} \cup {<<t>> : t \in RepoTokenPool}

BranchInputs == {"", "dev"}

RemoteURL == "https://example.org/r.git"

\* Complete repository entries; Local is filled in per position by RawConfigs.
ValidRepoInputs ==
    [Name : RepoNames, Local : {"/"}, Remote : {RemoteURL},
     Branch : BranchInputs, Tokens : RepoTokenInputs]

\* Entries with one required field missing.
InvalidRepoInputs ==
    { [Name |-> "", Local |-> "/", Remote |-> RemoteURL, Branch |-> "dev", Tokens |-> <<"t1">>],
      [Name |-> "a", Local |-> "", Remote |-> RemoteURL, Branch |-> "dev", Tokens |-> <<"t1">>],
      [Name |-> "a", Local |-> "/", Remote |-> "", Branch |-> "dev", Tokens |-> <<"t1">>] }

RepoInputs == ValidRepoInputs \cup InvalidRepoInputs

\* Listen address and port as written in the file.
NetInputs == { <<"", "">>, <<"127.0.0.1", "9000">> }

\* global_tokens lists: g1 .. gn.
GlobalTokenInputs == { [i \in 1..n |-> GlobalToken(i)] : n \in 0..MaxGlobals }

PlaceRepos(rs) ==
    [i \in DOMAIN rs |->
        [rs[i] EXCEPT !.Local = IF rs[i].Local = "" THEN "" ELSE LocalPath(i)]]

RawConfigs ==
    { [Address |-> net[1], Port |-> net[2], GlobalTokens |-> g,
       Repositories |-> PlaceRepos(rs)] :
        net \in NetInputs, g \in GlobalTokenInputs, rs \in SeqsUpTo(RepoInputs, MaxRepos) }

-----------------------------------------------------------------------------
(* Inputs: requests. *)

Methods == {"GET", "POST", "PUT"}

RequestTokens ==
    {"", "bogus"} \cup RepoTokenPool \cup {GlobalToken(i) : i \in 1..MaxGlobals}

\* Request bodies, as the bytes on the wire.
Bodies ==
    { "", "{name", "{}", "{\"name\":\"\"}", "{\"name\":\"a\"}", "{\"name\":\"b\"}" }

Requests == [token : RequestTokens, method : Methods, body : Bodies]

-----------------------------------------------------------------------------
(* repositoryConfig.validToken, serverConfig.getRepository / tokenExists. *)

validToken(rc, key) == \E i \in DOMAIN rc.Tokens : rc.Tokens[i] = key

\* Variant: a token of the global_tokens list counts as known.
tokenExistsOrGlobal(sc, key) ==
    \/ \E i \in DOMAIN sc.Repositories : validToken(sc.Repositories[i], key)
    \/ \E i \in DOMAIN sc.GlobalTokens : sc.GlobalTokens[i] = key

tokenExists(sc, key) ==
    \E i \in DOMAIN sc.Repositories : validToken(sc.Repositories[i], key)

\* Variant: the last repository of the list with that name wins.
getRepositoryLast(sc, name) ==
    LET hits == {i \in DOMAIN sc.Repositories : sc.Repositories[i].Name = name}
    IN  IF hits = {}
        THEN [found |-> FALSE, repo |-> <<>>,
              err |-> <<"failed to find configured repository with name: ", name>>]
        ELSE [found |-> TRUE,
              repo |-> sc.Repositories[CHOOSE i \in hits : \A j \in hits : i >= j],
              err |-> <<>>]

\* The first repository of the list with that name, or an error.
getRepository(sc, name) ==
    LET hits == {i \in DOMAIN sc.Repositories : sc.Repositories[i].Name = name}
    IN  IF hits = {}
        THEN [found |-> FALSE, repo |-> <<>>,
              err |-> <<"failed to find configured repository with name: ", name>>]
        ELSE [found |-> TRUE,
              repo |-> sc.Repositories[CHOOSE i \in hits : \A j \in hits : i <= j],
              err |-> <<>>]

-----------------------------------------------------------------------------
(* processConfig. *)

\* for _, t := range c.GlobalTokens { c.Repositories[i].Tokens = append(r.Tokens, t) }
\* r is the loop's copy of the entry: every pass appends to the tokens the entry
\* had in the file, and the entry keeps the result of the last pass.  (When
\* r.Tokens has spare capacity the passes share one array and overwrite the same
\* slot; the resulting list is the same.)
\* Variant: the entry's own tokens are replaced by the global token, not kept.
inheritTokensReplacing(rTokens, current, globals) ==
    IF globals = <<>> THEN current ELSE <<globals[Len(globals)]>>

RECURSIVE inheritTokens(_, _, _)
inheritTokens(rTokens, current, globals) ==
    IF globals = <<>>
    THEN current
    ELSE inheritTokens(rTokens, Append(rTokens, Head(globals)), Tail(globals))

RECURSIVE processRepositories(_, _)
processRepositories(c, i) ==
    IF i > Len(c.Repositories)
    THEN [config |-> c, err |-> NoError]
    ELSE LET r == c.Repositories[i]
         IN  IF r.Name = ""
             THEN [config |-> c, err |-> "repository config missing name value"]
             ELSE IF r.Local = ""
             THEN [config |-> c, err |-> "repository config missing local value"]
             ELSE IF r.Remote = ""
             THEN [config |-> c, err |-> "repository config missing remote value"]
             ELSE \* r.Branch = "main" is assigned to the copy r and is lost
                  LET toks == IF Len(c.GlobalTokens) > 0
                              THEN inheritTokens(r.Tokens, r.Tokens, c.GlobalTokens)
                              ELSE r.Tokens
                  IN  processRepositories(
                          [c EXCEPT !.Repositories[i].Tokens = toks], i + 1)

processConfig(c) ==
    LET c1 == IF c.Address = "" THEN [c EXCEPT !.Address = "0.0.0.0"] ELSE c
        c2 == IF c1.Port = "" THEN [c1 EXCEPT !.Port = "8654"] ELSE c1
    IN  processRepositories(c2, 1)

-----------------------------------------------------------------------------
(* json.NewDecoder(r.Body).Decode(&repReq), on the bodies of the model. *)

decodeBody(body) ==
    CASE body = ""      -> [err |-> "EOF", Name |-> ""]
      [] body = "{name" -> [err |-> "invalid character 'n' looking for beginning of object key string",
                            Name |-> ""]
      [] body = "{}"    -> [err |-> NoError, Name |-> ""]
      [] body = "{\"name\":\"\"}"  -> [err |-> NoError, Name |-> ""]
      [] body = "{\"name\":\"a\"}" -> [err |-> NoError, Name |-> "a"]
      [] body = "{\"name\":\"b\"}" -> [err |-> NoError, Name |-> "b"]

-----------------------------------------------------------------------------
(* The HTTP handler up to its call of syncRepository.  Each gate is one of  *)
(* the handler's early returns: it answers, or lets the request pass.       *)

Warn(msg) == [level |-> "WARN", msg |-> msg, attrs |-> <<>>]

Answer(status, body, log) ==
    [pass |-> FALSE, status |-> status, body |-> body, logs |-> <<log>>]

Pass == [pass |-> TRUE, status |-> 0, body |-> <<>>, logs |-> <<>>]

tokenGate(sc, req) ==
    IF req.token = ""
    THEN Answer(401, <<"Unauthorized\n">>, Warn("token not provided"))
    ELSE IF ~tokenExists(sc, req.token)
    THEN Answer(401, <<"Unauthorized\n">>, Warn("invalid token"))
    ELSE Pass

\* Variant: the method test for POST comes first, so GET is refused too.
methodGatePostFirst(req) ==
    IF req.method # "POST"
    THEN Answer(405, <<"GET or POST only\n">>, Warn("invalid method"))
    ELSE Pass

methodGate(req) ==
    IF req.method = "GET"
    THEN Answer(200, <<"OK\n">>, Warn("hit GET"))
    ELSE IF req.method # "POST"
    THEN Answer(405, <<"GET or POST only\n">>, Warn("invalid method"))
    ELSE Pass

\* Variant: no test for an empty name.
payloadGateNoNameTest(req) ==
    LET d == decodeBody(req.body)
    IN  IF d.err # NoError
        THEN Answer(400, <<"Bad Request: Failed to unmarshal json body: ", d.err, "\n">>,
                    Warn("failed to unmarshal body"))
        ELSE Pass

payloadGate(req) ==
    LET d == decodeBody(req.body)
    IN  IF d.err # NoError
        THEN Answer(400, <<"Bad Request: Failed to unmarshal json body: ", d.err, "\n">>,
                    Warn("failed to unmarshal body"))
        ELSE IF d.Name = ""
        THEN Answer(400, <<"Bad Request: Repository name not provided\n">>,
                    Warn("repository name not provided"))
        ELSE Pass

\* Variant: an unknown repository is answered as the bad request its text names.
lookupGateBadRequest(sc, name) ==
    LET g == getRepository(sc, name)
    IN  IF ~g.found
        THEN Answer(400, <<"Bad Request: Repository not found: ">> \o g.err \o <<"\n">>,
                    Warn("repository not found"))
        ELSE Pass

lookupGate(sc, name) ==
    LET g == getRepository(sc, name)
    IN  IF ~g.found
        THEN Answer(404, <<"Bad Request: Repository not found: ">> \o g.err \o <<"\n">>,
                    Warn("repository not found"))
        ELSE Pass

\* Variant: the token is not checked against the repository that was named.
repositoryTokenGateSkipped(rc, token) == Pass

repositoryTokenGate(rc, token) ==
    IF ~validToken(rc, token)
    THEN Answer(401, <<"Unauthorized\n">>, Warn("invalid token for repository"))
    ELSE Pass

\* slog.Info(repoConfig.Name, "local", ..., "remote", ..., "branch", ...)
logOperation(rc) ==
    [level |-> "INFO", msg |-> rc.Name,
     attrs |-> <<"local", rc.Local, "remote", rc.Remote, "branch", rc.Branch>>]

\* Variant: the handler writes its 200 before it calls syncRepository.
acceptedAnswerWrittenFirst(rc) ==
    [pass |-> TRUE, status |-> 200, body |-> <<"OK\n">>, logs |-> <<logOperation(rc)>>]

\* "all good": the operation is logged and nothing is written to the client
\* before syncRepository is called.
acceptedAnswer(rc) == [Pass EXCEPT !.logs = <<logOperation(rc)>>]

\* Variant: the method is tested before the token.
serveHTTPMethodFirst(sc, req) ==
    LET g1 == tokenGate(sc, req)
        g2 == methodGate(req)
        g3 == payloadGate(req)
        name == decodeBody(req.body).Name
        g4 == lookupGate(sc, name)
        rc == getRepository(sc, name).repo
        g5 == repositoryTokenGate(rc, req.token)
    IN  IF ~g2.pass /\ req.method # "GET" THEN g2
        ELSE IF ~g1.pass THEN g1
        ELSE IF ~g2.pass THEN g2
        ELSE IF ~g3.pass THEN g3
        ELSE IF ~g4.pass THEN g4
        ELSE IF ~g5.pass THEN g5
        ELSE acceptedAnswer(rc)

\* The handler's answer, or Pass when it goes on to syncRepository.
serveHTTP(sc, req) ==
    LET g1 == tokenGate(sc, req)
        g2 == methodGate(req)
        g3 == payloadGate(req)
        name == decodeBody(req.body).Name
        g4 == lookupGate(sc, name)
        rc == getRepository(sc, name).repo
        g5 == repositoryTokenGate(rc, req.token)
    IN  IF ~g1.pass THEN g1
        ELSE IF ~g2.pass THEN g2
        ELSE IF ~g3.pass THEN g3
        ELSE IF ~g4.pass THEN g4
        ELSE IF ~g5.pass THEN g5
        ELSE acceptedAnswer(rc)

-----------------------------------------------------------------------------
(* syncRepository and its three commands. *)

\* exec.Command(...) with cmd.Dir = r.Local
fetchCommand(r) == [argv |-> <<"git", "fetch", "origin", r.Branch>>, dir |-> r.Local]

resetCommand(r) ==
    [argv |-> <<"git", "reset", "--hard", <<"origin/", r.Branch>>>>, dir |-> r.Local]

cleanCommand(r) == [argv |-> <<"git", "clean", "-fdx">>, dir |-> r.Local]

commandOf(step, r) ==
    CASE step = "fetch" -> fetchCommand(r)
      [] step = "reset" -> resetCommand(r)
      [] step = "clean" -> cleanCommand(r)

\* The error a failed step returns, as syncRepository wraps it.
syncError(step) ==
    CASE step = "fetch" -> <<"failed to sync repository: ", "failed to fetch origin: ", "exit status 1">>
      [] step = "reset" -> <<"failed to sync repository: ", "failed to reset origin: ", "exit status 1">>
      [] step = "clean" -> <<"failed to clean repository: ", "failed to clean untracked files: ", "exit status 1">>

\* Variant: the error of a step is not tested, the next step runs all the same.
afterStepIgnoringError(step, ok) ==
    CASE step = "fetch" -> "reset"
      [] step = "reset" -> "clean"
      [] step = "clean" -> "return"

\* Variant: the reset is left out.
afterStepWithoutReset(step, ok) ==
    IF ~ok THEN "return"
    ELSE CASE step = "fetch" -> "clean"
           [] step = "reset" -> "clean"
           [] step = "clean" -> "return"

\* Where syncRepository goes after a step: on, or back to its caller.
afterStep(step, ok) ==
    IF ~ok THEN "return"
    ELSE CASE step = "fetch" -> "reset"
           [] step = "reset" -> "clean"
           [] step = "clean" -> "return"

\* Variant: the handler answers 500 when the sync failed.
statusAfterSyncFromError(err) == IF err = <<>> THEN 200 ELSE 500

\* The handler drops syncRepository's result and returns without writing:
\* net/http then sends 200 with an empty body.
statusAfterSync(err) == 200

-----------------------------------------------------------------------------
(* The working copy, as the three git commands change it.  git is not part  *)
(* of the program: its effect is taken from its description (a fetch brings *)
(* the remote-tracking ref origin/<branch> to the remote's tip, a hard      *)
(* reset makes the checkout equal to that ref, a clean removes what is      *)
(* untracked), and a command that fails changes nothing.  The remote does   *)
(* not move.                                                                *)

\* A working copy nobody has synced: origin/<branch> is behind the remote,
\* the checkout has local changes and there are untracked files.
Unsynced == [tracking |-> "stale", head |-> "local", untracked |-> TRUE]

\* A working copy equal to the remote's tip, nothing untracked.
Synced == [tracking |-> "tip", head |-> "tip", untracked |-> FALSE]

gitEffect(step, ok, w) ==
    IF ~ok THEN w
    ELSE CASE step = "fetch" -> [w EXCEPT !.tracking = "tip"]
           [] step = "reset" -> [w EXCEPT !.head = w.tracking]
           [] step = "clean" -> [w EXCEPT !.untracked = FALSE]

\* Variant: a command waits while another request is between the commands of
\* its own sync in the same local path (a lock per working copy).
mayStartExclusive(hs, h) ==
    \A o \in DOMAIN hs :
        (o # h /\ hs[o].repo.Local = hs[h].repo.Local)
            => ~(hs[o].pc \in {"reset", "clean"})

\* cmd.Run() starts the command at once: syncRepository takes no lock and looks
\* at no other request.
mayStart(hs, h) == TRUE

-----------------------------------------------------------------------------
(* State. *)

NoRequest == [token |-> "", method |-> "", body |-> ""]

NoRepo == [Name |-> "", Local |-> "", Remote |-> "", Branch |-> "", Tokens |-> <<>>]

\* before and interleaved are history of the request: the working copy as its
\* first command found it, and whether a command of another request ran in
\* its local path between two of its own.
Idle ==
    [pc |-> "idle", req |-> NoRequest, status |-> 0, body |-> <<>>, logs |-> <<>>,
     repo |-> NoRepo, calls |-> <<>>, failed |-> <<>>, err |-> <<>>,
     before |-> Unsynced, interleaved |-> FALSE]

\* fmt.Printf of main at startup.
startupOutput(p) ==
    IF p.err # NoError
    THEN <<"error in config: ", p.err, "\n">>
    ELSE <<"Listening on ", p.config.Address, ":", p.config.Port, "\n">>

Init ==
    /\ phase = "loaded"
    /\ loaded \in RawConfigs
    /\ config = loaded
    /\ handlers = [h \in {1} |-> Idle]
    /\ stdout = <<>>
    /\ worktree = <<>>

\* Variant: processConfig runs again on the configuration of the running server.
ProcessConfigAgain ==
    /\ phase \in {"loaded", "serving"}
    /\ LET p == processConfig(config)
       IN  /\ config' = p.config
           /\ phase' = IF p.err = NoError THEN "serving" ELSE "exited"
           /\ stdout' = stdout \o startupOutput(p)
    /\ UNCHANGED <<loaded, handlers, worktree>>

\* main: processConfig, then exit on its error or serve.
ProcessConfig ==
    /\ phase = "loaded"
    /\ LET p == processConfig(config)
       IN  /\ config' = p.config
           /\ phase' = IF p.err = NoError THEN "serving" ELSE "exited"
           /\ stdout' = stdout \o startupOutput(p)
    /\ UNCHANGED <<loaded, handlers, worktree>>

\* A request arrives on an idle connection; the handler runs up to its answer or up
\* to the first command of syncRepository.
Receive(h, req) ==
    /\ phase = "serving"
    /\ handlers[h].pc = "idle"
    /\ LET a == serveHTTP(config, req)
       IN  handlers' = [handlers EXCEPT ![h] =
              IF a.pass
              THEN [Idle EXCEPT !.pc = "fetch", !.req = req, !.status = a.status,
                                !.body = a.body, !.logs = a.logs,
                                !.repo = getRepository(config, decodeBody(req.body).Name).repo]
              ELSE [Idle EXCEPT !.pc = "done", !.req = req, !.status = a.status,
                                !.body = a.body, !.logs = a.logs]]
    /\ UNCHANGED <<server, worktree>>

\* One command of syncRepository runs and exits with or without an error.
RunStep(h, step, ok) ==
    LET dir == commandOf(step, handlers[h].repo).dir
        followed == dir \in DOMAIN worktree
    IN  /\ handlers[h].pc = step
        /\ mayStart(handlers, h)
        /\ handlers' = [handlers EXCEPT ![h] =
              [@ EXCEPT !.calls = Append(@, commandOf(step, handlers[h].repo)),
                        !.failed = IF ok THEN @ ELSE Append(@, step),
                        !.err = IF ok THEN @ ELSE syncError(step),
                        !.pc = afterStep(step, ok),
                        !.before = IF followed /\ handlers[h].calls = <<>>
                                   THEN [tracking |-> worktree[dir].tracking,
                                         head |-> worktree[dir].head,
                                         untracked |-> worktree[dir].untracked]
                                   ELSE @,
                        !.interleaved = \/ @
                                        \/ /\ followed
                                           /\ handlers[h].calls # <<>>
                                           /\ worktree[dir].lastBy # h]]
        /\ worktree' = IF followed
                       THEN [worktree EXCEPT ![dir] =
                               [gitEffect(step, ok, @) EXCEPT !.lastBy = h]]
                       ELSE worktree
        /\ UNCHANGED server

Fetch(h) == \E ok \in BOOLEAN : RunStep(h, "fetch", ok)

Reset(h) == \E ok \in BOOLEAN : RunStep(h, "reset", ok)

Clean(h) == \E ok \in BOOLEAN : RunStep(h, "clean", ok)

\* syncRepository has returned; the handler returns and the answer is sent.
Return(h) ==
    /\ handlers[h].pc = "return"
    /\ handlers' = [handlers EXCEPT ![h] =
          [@ EXCEPT !.pc = "done", !.status = statusAfterSync(handlers[h].err)]]
    /\ UNCHANGED <<server, worktree>>

\* The answer has been written out; the connection waits for its next request.
Finish(h) ==
    /\ handlers[h].pc = "done"
    /\ handlers' = [handlers EXCEPT ![h] = Idle]
    /\ UNCHANGED <<server, worktree>>

Next ==
    \/ ProcessConfig
    \/ \E h \in DOMAIN handlers, req \in Requests : Receive(h, req)
    \/ \E h \in DOMAIN handlers : Fetch(h)
    \/ \E h \in DOMAIN handlers : Reset(h)
    \/ \E h \in DOMAIN handlers : Clean(h)
    \/ \E h \in DOMAIN handlers : Return(h)
    \/ \E h \in DOMAIN handlers : Finish(h)

Spec == Init /\ [][Next]_vars

-----------------------------------------------------------------------------
(* The server with two connections. *)

ConcRepoInputs ==
    [Name : RepoNames, Local : {"/"}, Remote : {RemoteURL},
     Branch : {"dev"}, Tokens : {<<"t1">>}]

ConcConfigs ==
    { [Address |-> "127.0.0.1", Port |-> "9000", GlobalTokens |-> <<GlobalToken(1)>>,
       Repositories |-> PlaceRepos(rs)] :
        rs \in SeqsUpTo(ConcRepoInputs, MaxRepos) \ {<<>>} }

ConcRequests ==
    [token : {"t1"}, method : {"POST"}, body : {"{\"name\":\"a\"}", "{\"name\":\"b\"}"}]
        \cup {[token |-> "t1", method |-> "GET", body |-> ""]}

InitConc ==
    /\ phase = "loaded"
    /\ loaded \in ConcConfigs
    /\ config = loaded
    /\ handlers = [h \in {1, 2} |-> Idle]
    /\ stdout = <<>>
    /\ worktree = [d \in {loaded.Repositories[1].Local}
                     |-> [tracking |-> Unsynced.tracking, head |-> Unsynced.head,
                          untracked |-> Unsynced.untracked, lastBy |-> 0]]

NextConc ==
    \/ ProcessConfig
    \/ \E h \in DOMAIN handlers, req \in ConcRequests : Receive(h, req)
    \/ \E h \in DOMAIN handlers : Fetch(h)
    \/ \E h \in DOMAIN handlers : Reset(h)
    \/ \E h \in DOMAIN handlers : Clean(h)
    \/ \E h \in DOMAIN handlers : Return(h)
    \/ \E h \in DOMAIN handlers : Finish(h)

SpecConc == InitConc /\ [][NextConc]_vars

-----------------------------------------------------------------------------
(* The first program of src/main.go (lines 1-256), up to its listening: the *)
(* same server with api_keys per repository and one master_key.  After      *)
(* processConfig it prints the configuration with %#v.                      *)

FirstKeyInputs == {<<>>, <<"k1">>}

FirstRepoInputs ==
    [Name : RepoNames, Local : {"/"}, Remote : {RemoteURL},
     Branch : BranchInputs, ApiKeys : FirstKeyInputs]
    \cup
    { [Name |-> "", Local |-> "/", Remote |-> RemoteURL, Branch |-> "dev", ApiKeys |-> <<"k1">>],
      [Name |-> "a", Local |-> "", Remote |-> RemoteURL, Branch |-> "dev", ApiKeys |-> <<"k1">>],
      [Name |-> "a", Local |-> "/", Remote |-> "", Branch |-> "dev", ApiKeys |-> <<"k1">>] }

FirstConfigs ==
    { [Address |-> net[1], Port |-> net[2], MasterKey |-> m,
       Repositories |-> PlaceRepos(rs), LogDirectory |-> ""] :
        net \in NetInputs, m \in {"", "m1"}, rs \in SeqsUpTo(FirstRepoInputs, MaxRepos) }

RECURSIVE processRepositoriesFirst(_, _)
processRepositoriesFirst(c, i) ==
    IF i > Len(c.Repositories)
    THEN [config |-> c, err |-> NoError]
    ELSE LET r == c.Repositories[i]
         IN  IF r.Name = ""
             THEN [config |-> c, err |-> "repository config missing name value"]
             ELSE IF r.Local = ""
             THEN [config |-> c, err |-> "repository config missing local value"]
             ELSE IF r.Remote = ""
             THEN [config |-> c, err |-> "repository config missing remote value"]
             ELSE \* r.Branch = "main" is assigned to the copy r and is lost
                  LET keys == IF c.MasterKey # ""
                              THEN Append(r.ApiKeys, c.MasterKey)
                              ELSE r.ApiKeys
                  IN  processRepositoriesFirst(
                          [c EXCEPT !.Repositories[i].ApiKeys = keys], i + 1)

processConfigFirst(c) ==
    LET c1 == IF c.Address = "" THEN [c EXCEPT !.Address = ""] ELSE c
        c2 == IF c1.Port = "" THEN [c1 EXCEPT !.Port = "8654"] ELSE c1
    IN  processRepositoriesFirst(c2, 1)

\* fmt.Printf("%#v\n", config): every field of the configuration, by name.
RECURSIVE dumpRepositoriesFirst(_)
dumpRepositoriesFirst(rs) ==
    IF rs = <<>>
    THEN <<>>
    ELSE <<"main.repositoryConfig{Name:", Head(rs).Name, "Local:", Head(rs).Local,
           "Remote:", Head(rs).Remote, "Branch:", Head(rs).Branch, "ApiKeys:[]string{">>
         \o Head(rs).ApiKeys \o <<"}}">> \o dumpRepositoriesFirst(Tail(rs))

dumpConfigFirst(c) ==
    <<"&main.serverConfig{Address:", c.Address, "Port:", c.Port,
      "MasterKey:", c.MasterKey, "Repositories:[]main.repositoryConfig{">>
    \o dumpRepositoriesFirst(c.Repositories)
    \o <<"}", "LogDirectory:", c.LogDirectory, "}\n">>

\* fmt.Printf of the first program's main at startup.
startupOutputFirst(p) ==
    IF p.err # NoError
    THEN <<"error in config: ", p.err, "\n">>
    ELSE dumpConfigFirst(p.config)
         \o <<"Listening on ", p.config.Address, ":", p.config.Port, "\n">>

InitFirst ==
    /\ phase = "loaded"
    /\ loaded \in FirstConfigs
    /\ config = loaded
    /\ handlers = [h \in {1} |-> Idle]
    /\ stdout = <<>>
    /\ worktree = <<>>

\* main of the first program: processConfig, then exit on its error, or print
\* the configuration and listen.
ProcessConfigFirst ==
    /\ phase = "loaded"
    /\ LET p == processConfigFirst(config)
       IN  /\ config' = p.config
           /\ phase' = IF p.err = NoError THEN "serving" ELSE "exited"
           /\ stdout' = stdout \o startupOutputFirst(p)
    /\ UNCHANGED <<loaded, handlers, worktree>>

NextFirst == ProcessConfigFirst

SpecFirst == InitFirst /\ [][NextFirst]_vars

-----------------------------------------------------------------------------
(* Vocabulary of the properties, stated on the configuration the handler    *)
(* consults and on the request, not on the handler's own tests.             *)

TokenSet(rc) == Range(rc.Tokens)

\* The token is in the token set of at least one configured repository.
KnownToken(tok) == \E i \in DOMAIN config.Repositories : tok \in TokenSet(config.Repositories[i])

\* Positions of the repositories configured under that name.
Named(name) == {i \in DOMAIN config.Repositories : config.Repositories[i].Name = name}

\* The body is a JSON object that carries that name.
Names(body, name) == decodeBody(body).err = NoError /\ decodeBody(body).Name = name

\* Position i is the first repository of its name.
FirstOfName(i) == \A j \in Named(config.Repositories[i].Name) : i <= j

\* The request is a POST that names repository i and carries a token of i.
AuthorizedFor(req, i) ==
    /\ req.method = "POST"
    /\ req.token # ""
    /\ Names(req.body, config.Repositories[i].Name)
    /\ FirstOfName(i)
    /\ req.token \in TokenSet(config.Repositories[i])

\* The git subcommands of a list of invocations.
Subcommands(calls) == [k \in DOMAIN calls |-> calls[k].argv[2]]

InFlight == {h \in DOMAIN handlers : handlers[h].pc # "idle"}

-----------------------------------------------------------------------------
(* C1: a request whose token is in no repository's token set (as            *)
(* processConfig left them) is answered 401 and runs no git command,        *)
(* whatever its method and body.                                            *)
C1_UnknownTokenUnauthorized ==
    \A h \in InFlight :
        ~KnownToken(handlers[h].req.token)
            => /\ handlers[h].pc = "done"
               /\ handlers[h].status = 401
               /\ handlers[h].calls = <<>>

\* An unknown, non-empty token on a well-formed POST that names a configured
\* repository has been answered 401.
C1_Witness ==
    \E h \in InFlight :
        /\ handlers[h].req.token = "bogus"
        /\ handlers[h].req.method = "POST"
        /\ \E i \in DOMAIN config.Repositories :
              Names(handlers[h].req.body, config.Repositories[i].Name)
        /\ handlers[h].status = 401

(* C2, as claimed: for any two distinct configured repositories A and B and *)
(* a token of A that is not a token of B, a POST naming B with that token   *)
(* is answered 401 and runs nothing in B's working copy.                    *)
C2_ScopedTokenAnyTwoRepositories ==
    \A h \in InFlight : \A a, b \in DOMAIN config.Repositories :
        ( /\ a # b
          /\ handlers[h].req.method = "POST"
          /\ handlers[h].req.token \in TokenSet(config.Repositories[a])
          /\ handlers[h].req.token \notin TokenSet(config.Repositories[b])
          /\ Names(handlers[h].req.body, config.Repositories[b].Name) )
            => /\ handlers[h].pc = "done"
               /\ handlers[h].status = 401
               /\ \A k \in DOMAIN handlers[h].calls :
                     handlers[h].calls[k].dir # config.Repositories[b].Local

(* C2, amended: the same when B is the repository its name resolves to,     *)
(* the first one configured under that name; then no git command runs.      *)
C2_ScopedTokenResolvedRepository ==
    \A h \in InFlight : \A a, b \in DOMAIN config.Repositories :
        ( /\ a # b
          /\ FirstOfName(b)
          /\ handlers[h].req.method = "POST"
          /\ handlers[h].req.token \in TokenSet(config.Repositories[a])
          /\ handlers[h].req.token \notin TokenSet(config.Repositories[b])
          /\ Names(handlers[h].req.body, config.Repositories[b].Name) )
            => /\ handlers[h].pc = "done"
               /\ handlers[h].status = 401
               /\ handlers[h].calls = <<>>

\* A token of repository a alone has been refused on a POST that names b.
C2_Witness ==
    \E h \in InFlight : \E a, b \in DOMAIN config.Repositories :
        /\ config.Repositories[a].Name # config.Repositories[b].Name
        /\ handlers[h].req.method = "POST"
        /\ handlers[h].req.token \in TokenSet(config.Repositories[a])
        /\ handlers[h].req.token \notin TokenSet(config.Repositories[b])
        /\ Names(handlers[h].req.body, config.Repositories[b].Name)
        /\ handlers[h].status = 401

(* C3: once processConfig has returned, every token of the global_tokens    *)
(* list is a valid token of every configured repository.                    *)
C3_GlobalTokensValidEverywhere ==
    phase = "serving" =>
        \A i \in DOMAIN config.Repositories : \A g \in DOMAIN config.GlobalTokens :
            config.GlobalTokens[g] \in TokenSet(config.Repositories[i])

(* C4: a POST that passes every check and whose three commands succeed has *)
(* run git fetch, git reset, git clean, once each and in that order, all in *)
(* the local path of the repository its name resolves to.                   *)
C4_FetchResetCleanOnceInOrder ==
    \A h \in InFlight : \A i \in DOMAIN config.Repositories :
        ( /\ AuthorizedFor(handlers[h].req, i)
          /\ handlers[h].pc = "done"
          /\ handlers[h].failed = <<>> )
            => /\ Subcommands(handlers[h].calls) = <<"fetch", "reset", "clean">>
               /\ \A k \in DOMAIN handlers[h].calls :
                     handlers[h].calls[k].dir = config.Repositories[i].Local

\* A sync of the second of two repositories has run to its end without error.
C4_Witness ==
    \E h \in InFlight : \E i \in DOMAIN config.Repositories :
        /\ i = 2
        /\ AuthorizedFor(handlers[h].req, i)
        /\ handlers[h].pc = "done"
        /\ handlers[h].failed = <<>>
        /\ Len(handlers[h].calls) = 3

(* C5: syncRepository stops at the first failed step: the failed command is *)
(* the last one run, it ran once, nothing runs after it, and the error      *)
(* returned is not nil.                                                     *)
C5_NoStepAfterFailure ==
    \A h \in InFlight :
        handlers[h].failed # <<>>
            => /\ handlers[h].pc \in {"return", "done"}
               /\ handlers[h].err # <<>>
               /\ Len(handlers[h].failed) = 1
               /\ Subcommands(handlers[h].calls) =
                     CASE handlers[h].failed[1] = "fetch" -> <<"fetch">>
                       [] handlers[h].failed[1] = "reset" -> <<"fetch", "reset">>
                       [] handlers[h].failed[1] = "clean" -> <<"fetch", "reset", "clean">>

\* A request has been answered after its fetch succeeded and its reset failed.
C5_Witness ==
    \E h \in InFlight :
        /\ handlers[h].pc = "done"
        /\ handlers[h].failed = <<"reset">>
        /\ Len(handlers[h].calls) = 2

(* C6: a GET with a token of at least one repository is answered 200 "OK\n" *)
(* and runs no git command, whatever its body.                              *)
C6_GetAnswersOkWithoutSync ==
    \A h \in InFlight :
        (handlers[h].req.method = "GET" /\ KnownToken(handlers[h].req.token))
            => /\ handlers[h].pc = "done"
               /\ handlers[h].status = 200
               /\ handlers[h].body = <<"OK\n">>
               /\ handlers[h].calls = <<>>

\* A GET whose body names a repository its token is valid for has been answered.
C6_Witness ==
    \E h \in InFlight : \E i \in DOMAIN config.Repositories :
        /\ handlers[h].req.method = "GET"
        /\ handlers[h].req.token \in TokenSet(config.Repositories[i])
        /\ Names(handlers[h].req.body, config.Repositories[i].Name)
        /\ handlers[h].status = 200

(* C7: a POST that passed every check is answered 200 whether its sync      *)
(* succeeded or failed at fetch, at reset or at clean.                      *)
C7_StatusIndependentOfSyncOutcome ==
    \A h \in InFlight : \A i \in DOMAIN config.Repositories :
        (AuthorizedFor(handlers[h].req, i) /\ handlers[h].pc = "done")
            => handlers[h].status = 200

\* A request whose fetch failed has been answered 200.
C7_Witness ==
    \E h \in InFlight :
        /\ handlers[h].pc = "done"
        /\ handlers[h].failed = <<"fetch">>
        /\ handlers[h].status = 200

(* C8: when syncRepository returned an error, the handler has logged a      *)
(* record that carries this error (a warning or error record with an        *)
(* "error" attribute) by the time the request completes.                    *)
C8_SyncErrorLogged ==
    \A h \in InFlight :
        (handlers[h].pc = "done" /\ handlers[h].err # <<>>)
            => \E k \in DOMAIN handlers[h].logs :
                  /\ handlers[h].logs[k].level \in {"WARN", "ERROR"}
                  /\ \E a \in DOMAIN handlers[h].logs[k].attrs :
                        handlers[h].logs[k].attrs[a] = "error"

(* C9: a POST with a known token whose body does not decode, or decodes     *)
(* with an empty name, is answered 400 and runs no git command.             *)
C9_BadPayloadRejected ==
    \A h \in InFlight :
        ( /\ handlers[h].req.method = "POST"
          /\ KnownToken(handlers[h].req.token)
          /\ \/ decodeBody(handlers[h].req.body).err # NoError
             \/ decodeBody(handlers[h].req.body).Name = "" )
            => /\ handlers[h].pc = "done"
               /\ handlers[h].status = 400
               /\ handlers[h].calls = <<>>

\* An object without a name, sent with a known token, has been answered 400.
C9_Witness ==
    \E h \in InFlight :
        /\ handlers[h].req.method = "POST"
        /\ KnownToken(handlers[h].req.token)
        /\ handlers[h].req.body = "{}"
        /\ handlers[h].status = 400

(* C10: a POST with a known token and a non-empty name that no configured   *)
(* repository has is answered 404 and runs no git command.                  *)
C10_UnknownRepositoryNotFound ==
    \A h \in InFlight :
        ( /\ handlers[h].req.method = "POST"
          /\ KnownToken(handlers[h].req.token)
          /\ decodeBody(handlers[h].req.body).err = NoError
          /\ decodeBody(handlers[h].req.body).Name # ""
          /\ Named(decodeBody(handlers[h].req.body).Name) = {} )
            => /\ handlers[h].pc = "done"
               /\ handlers[h].status = 404
               /\ handlers[h].calls = <<>>

\* A name that is not configured, sent with a known token, has been answered 404.
C10_Witness ==
    \E h \in InFlight :
        /\ handlers[h].req.method = "POST"
        /\ KnownToken(handlers[h].req.token)
        /\ Names(handlers[h].req.body, "b")
        /\ Named("b") = {}
        /\ handlers[h].status = 404

(* C11: once processConfig has returned, every repository whose branch was  *)
(* empty in the file has branch "main" in the configuration the handler     *)
(* consults.                                                                *)
C11_EmptyBranchDefaultsToMain ==
    phase = "serving" =>
        \A i \in DOMAIN config.Repositories :
            loaded.Repositories[i].Branch = "" => config.Repositories[i].Branch = "main"

(* C16: processConfig leaves the listen address as the file gave it.        *)
C16_AddressLeftAsGiven ==
    phase = "serving" => config.Address = loaded.Address

\* The status the decision order of the handler gives a request: the first
\* rule that matches.
FirstNamed(name) == config.Repositories[CHOOSE i \in Named(name) : \A j \in Named(name) : i <= j]

SyncExpected(req) ==
    /\ req.token # ""
    /\ KnownToken(req.token)
    /\ req.method = "POST"
    /\ decodeBody(req.body).err = NoError
    /\ decodeBody(req.body).Name # ""
    /\ Named(decodeBody(req.body).Name) # {}
    /\ req.token \in TokenSet(FirstNamed(decodeBody(req.body).Name))

ExpectedStatus(req) ==
    IF req.token = "" THEN 401
    ELSE IF ~KnownToken(req.token) THEN 401
    ELSE IF req.method = "GET" THEN 200
    ELSE IF req.method # "POST" THEN 405
    ELSE IF decodeBody(req.body).err # NoError THEN 400
    ELSE IF decodeBody(req.body).Name = "" THEN 400
    ELSE IF Named(decodeBody(req.body).Name) = {} THEN 404
    ELSE IF req.token \notin TokenSet(FirstNamed(decodeBody(req.body).Name)) THEN 401
    ELSE 200

(* C17: for every token, method and body, the status of the answer is that  *)
(* of the first matching rule of the decision order, and git commands run   *)
(* for the requests that match no rejecting rule, and for no others.        *)
C17_FirstMatchingRuleDecides ==
    \A h \in InFlight :
        /\ handlers[h].pc = "done" => handlers[h].status = ExpectedStatus(handlers[h].req)
        /\ handlers[h].pc # "done" => SyncExpected(handlers[h].req)
        /\ handlers[h].calls # <<>> => SyncExpected(handlers[h].req)
        /\ (handlers[h].pc = "done" /\ SyncExpected(handlers[h].req))
              => handlers[h].calls # <<>>

\* A PUT with a known token and a body that names a configured repository has
\* been answered 405, and nothing was run.
C17_Witness ==
    \E h \in InFlight :
        /\ handlers[h].req.method = "PUT"
        /\ KnownToken(handlers[h].req.token)
        /\ Named(decodeBody(handlers[h].req.body).Name) # {}
        /\ handlers[h].status = 405
        /\ handlers[h].calls = <<>>

(* C19: after processConfig every repository's token set holds all the      *)
(* tokens the file listed for it, and nothing but those and the global      *)
(* tokens: a token listed under one repository alone is valid for no other. *)
C19_InheritanceKeepsScope ==
    phase = "serving" =>
        \A i \in DOMAIN config.Repositories :
            /\ TokenSet(loaded.Repositories[i]) \subseteq TokenSet(config.Repositories[i])
            /\ TokenSet(config.Repositories[i]) \subseteq
                  TokenSet(loaded.Repositories[i]) \cup Range(loaded.GlobalTokens)
            /\ \A t \in TokenSet(config.Repositories[i]) \ Range(loaded.GlobalTokens) :
                  t \in TokenSet(loaded.Repositories[i])

\* The server runs with a global token inherited by two repositories, one of
\* which has a token of its own that the other has not got.
C19_Witness ==
    /\ phase = "serving"
    /\ loaded.GlobalTokens # <<>>
    /\ \E i, j \in DOMAIN config.Repositories :
          /\ "t1" \in TokenSet(loaded.Repositories[i])
          /\ "t1" \notin TokenSet(loaded.Repositories[j])
          /\ "t1" \in TokenSet(config.Repositories[i])
          /\ "t1" \notin TokenSet(config.Repositories[j])
          /\ TokenSet(config.Repositories[j]) # {}

(* C20: when several repositories share a name, a POST with that name is    *)
(* decided by the first one: its token set gives 401 or the sync, every git *)
(* command runs in its local path, and a later one of that name is never    *)
(* synced.                                                                  *)
C20_DuplicateNameResolvesToFirst ==
    \A h \in InFlight :
        LET req == handlers[h].req
            name == decodeBody(req.body).Name
        IN  ( /\ req.method = "POST"
              /\ KnownToken(req.token)
              /\ decodeBody(req.body).err = NoError
              /\ Cardinality(Named(name)) >= 2 )
                => /\ req.token \notin TokenSet(FirstNamed(name))
                        => /\ handlers[h].pc = "done"
                           /\ handlers[h].status = 401
                           /\ handlers[h].calls = <<>>
                   /\ req.token \in TokenSet(FirstNamed(name))
                        => /\ handlers[h].status \in {0, 200}
                           /\ handlers[h].pc = "done" => handlers[h].calls # <<>>
                   /\ \A k \in DOMAIN handlers[h].calls :
                        handlers[h].calls[k].dir = FirstNamed(name).Local

\* A token listed under the later of two repositories of one name only has been
\* refused on a POST with that name.
C20_Witness ==
    \E h \in InFlight : \E i, j \in DOMAIN config.Repositories :
        /\ i < j
        /\ config.Repositories[i].Name = config.Repositories[j].Name
        /\ handlers[h].req.method = "POST"
        /\ Names(handlers[h].req.body, config.Repositories[j].Name)
        /\ handlers[h].req.token \in TokenSet(config.Repositories[j])
        /\ handlers[h].req.token \notin TokenSet(config.Repositories[i])
        /\ handlers[h].status = 401

(* C14: the answer to an authorized POST is sent only after its sync has    *)
(* finished: while a command of the request is pending, or syncRepository   *)
(* has not yet returned to the handler, no status and no body have been     *)
(* written; once they are, clean has run or a step has failed.              *)
C14_AnswerAfterSync ==
    \A h \in InFlight :
        /\ handlers[h].pc \in {"fetch", "reset", "clean", "return"}
              => handlers[h].status = 0 /\ handlers[h].body = <<>>
        /\ (SyncExpected(handlers[h].req) /\ handlers[h].status # 0)
              => /\ handlers[h].pc = "done"
                 /\ \/ handlers[h].failed # <<>>
                    \/ Subcommands(handlers[h].calls) = <<"fetch", "reset", "clean">>

\* A request waits for its git clean, fetch and reset done, and has no answer yet.
C14_Witness ==
    \E h \in InFlight :
        /\ handlers[h].pc = "clean"
        /\ Len(handlers[h].calls) = 2
        /\ handlers[h].status = 0

\* The files and refs of a working copy, without the note of who ran last.
Content(w) == [tracking |-> w.tracking, head |-> w.head, untracked |-> w.untracked]

(* C13: nothing keeps two requests apart on one working copy: whenever a    *)
(* request is between two commands of its sync and a second request has a   *)
(* command to run in the same local path, that command can run at once.     *)
C13_NoMutualExclusion ==
    \A h1, h2 \in DOMAIN handlers :
        ( /\ h1 # h2
          /\ handlers[h1].pc \in {"reset", "clean"}
          /\ handlers[h2].pc \in {"fetch", "reset", "clean"}
          /\ handlers[h1].repo.Local = handlers[h2].repo.Local )
            => ENABLED (Fetch(h2) \/ Reset(h2) \/ Clean(h2))

\* A command of another request has run in a request's local path between two
\* commands of that request.
C13_Witness ==
    \E h1, h2 \in DOMAIN handlers :
        /\ h1 # h2
        /\ handlers[h1].interleaved
        /\ Len(handlers[h1].calls) >= 2
        /\ handlers[h2].calls # <<>>
        /\ handlers[h1].repo.Local = handlers[h2].repo.Local

(* C15: a full sync whose three commands succeed, run with no command of    *)
(* another request in between, returns no error and leaves the working copy *)
(* equal to origin/<branch> with nothing untracked; run on a working copy   *)
(* that a sync has already brought there, it leaves it as it found it.      *)
C15_SyncTwiceIdempotent ==
    \A h \in InFlight :
        ( /\ handlers[h].repo.Local \in DOMAIN worktree
          /\ handlers[h].pc \in {"return", "done"}
          /\ handlers[h].failed = <<>>
          /\ ~handlers[h].interleaved
          /\ worktree[handlers[h].repo.Local].lastBy = h )
            => /\ handlers[h].err = <<>>
               /\ Content(worktree[handlers[h].repo.Local]) = Synced
               /\ handlers[h].before = Synced
                     => Content(worktree[handlers[h].repo.Local]) = handlers[h].before

\* A sync has run to its end, without error, on a working copy that was
\* already synced when its fetch started.
C15_Witness ==
    \E h \in InFlight :
        /\ handlers[h].repo.Local \in DOMAIN worktree
        /\ handlers[h].pc = "done"
        /\ handlers[h].failed = <<>>
        /\ Len(handlers[h].calls) = 3
        /\ ~handlers[h].interleaved
        /\ worktree[handlers[h].repo.Local].lastBy = h
        /\ handlers[h].before = Synced

(* C18: once processConfig has returned, the configuration is in every      *)
(* state what processConfig made of the file, whatever the handlers do,     *)
(* one at a time or two at once.                                            *)
C18_ConfigurationImmutable ==
    phase = "serving" => config = processConfig(loaded).config

\* Two requests are served at once: one has run git commands, the other is a
\* GET that has been answered.
C18_Witness ==
    /\ phase = "serving"
    /\ \E h1, h2 \in DOMAIN handlers :
          /\ h1 # h2
          /\ Len(handlers[h1].calls) = 3
          /\ handlers[h2].pc = "done"
          /\ handlers[h2].req.method = "GET"

\* The keys a configuration of the first program holds.
ConfiguredKeys(c) ==
    (IF c.MasterKey = "" THEN {} ELSE {c.MasterKey})
        \cup UNION {Range(c.Repositories[i].ApiKeys) : i \in DOMAIN c.Repositories}

\* The same configuration with another value in the place of one key.
WithKeyReplaced(c, key, other) ==
    [c EXCEPT !.MasterKey = IF @ = key THEN other ELSE @,
              !.Repositories = [i \in DOMAIN @ |->
                  [@[i] EXCEPT !.ApiKeys = [k \in DOMAIN @ |-> IF @[k] = key THEN other ELSE @[k]]]]]

(* C12: the output of the process does not depend on the value of a token:  *)
(* a run that differs from this one in the value of one configured key      *)
(* only, with the same outcome of every check, prints the same at startup.  *)
C12_OutputIndependentOfTokens ==
    phase = "serving" =>
        \A key \in ConfiguredKeys(loaded) :
            startupOutputFirst(processConfigFirst(WithKeyReplaced(loaded, key, "other"))) = stdout

====
